---------------------------- MODULE Spec2Model ----------------------------
(***************************************************************************)
(* Model of arrow-cast-guess-precision (src/src/lib.rs, src/build.rs):     *)
(* the precision guesser guess_precision / guess_precision_in_array and    *)
(* the cast dispatcher cast / cast_with_options.                           *)
(*                                                                         *)
(* 64-bit integers are kept exact.  TLC's integers are 32 bits wide, so an *)
(* i64 is a sign and a magnitude written in base 1000, most significant    *)
(* limb first, without leading zero limbs (zero is the empty sequence).    *)
(* The thresholds of the guesser and the unit conversions of the caster    *)
(* are all powers of 1000, which this representation keeps exact.          *)
(***************************************************************************)
EXTENDS Integers, Sequences, FiniteSets, TLC

(***************************************************************************)
(* Exact integers.                                                         *)
(***************************************************************************)
RECURSIVE FromNat(_)
\* the magnitude of a natural number below 2^31
FromNat(n) == IF n = 0 THEN << >> ELSE Append(FromNat(n \div 1000), n % 1000)

RECURSIVE MulCarry(_, _, _)
\* limbs of m * k plus carry, k small enough for 999 * k + carry < 2^31
MulCarry(m, k, carry) ==
    IF m = << >> THEN FromNat(carry)
    ELSE LET p == m[Len(m)] * k + carry
         IN  Append(MulCarry(SubSeq(m, 1, Len(m) - 1), k, p \div 1000), p % 1000)

\* magnitude times a small positive integer
MulSmall(m, k) == IF m = << >> THEN << >> ELSE MulCarry(m, k, 0)

RECURSIVE LexLess(_, _)
LexLess(a, b) ==
    IF a = << >> THEN FALSE
    ELSE IF Head(a) # Head(b) THEN Head(a) < Head(b)
    ELSE LexLess(Tail(a), Tail(b))

\* a < b on magnitudes
MagLess(a, b) ==
    IF Len(a) # Len(b) THEN Len(a) < Len(b) ELSE LexLess(a, b)

Zeros(k) == [i \in 1..k |-> 0]

\* magnitude times 1000^k
MagShl(m, k) == IF m = << >> THEN << >> ELSE m \o Zeros(k)

\* magnitude divided by 1000^k, rounded toward zero
MagShr(m, k) == IF Len(m) <= k THEN << >> ELSE SubSeq(m, 1, Len(m) - k)

RECURSIVE MagSucc(_)
\* magnitude plus one
MagSucc(m) ==
    IF m = << >> THEN <<1>>
    ELSE IF m[Len(m)] < 999
         THEN [m EXCEPT ![Len(m)] = @ + 1]
         ELSE IF Len(m) = 1 THEN <<1, 0>>
              ELSE Append(MagSucc(SubSeq(m, 1, Len(m) - 1)), 0)

\* a signed integer
Num(neg, mag) == [null |-> FALSE, neg |-> neg /\ mag # << >>, mag |-> mag]
Pos(mag) == Num(FALSE, mag)
Neg(mag) == Num(TRUE, mag)

\* a > b on signed integers
NumGt(a, b) ==
    IF a.neg # b.neg THEN b.neg
    ELSE IF a.neg THEN MagLess(a.mag, b.mag) ELSE MagLess(b.mag, a.mag)

\* i64::MAX = 9_223_372_036_854_775_807 and the magnitude of i64::MIN
I64MaxMag == <<9, 223, 372, 36, 854, 775, 807>>
I64MinMag == <<9, 223, 372, 36, 854, 775, 808>>
I64_MIN == Neg(I64MinMag)
I64_MAX == Pos(I64MaxMag)

\* whether the signed integer n is an i64
FitsI64(n) ==
    IF n.neg THEN ~MagLess(I64MinMag, n.mag) ELSE ~MagLess(I64MaxMag, n.mag)

(***************************************************************************)
(* State: one call of the library per behaviour.  Init draws the call and  *)
(* its inputs, the action of the called function runs it to completion.    *)
(***************************************************************************)
VARIABLES
    overflow_checks,  \* build profile: integer overflow panics (debug) or wraps (release)
    op,               \* the function called
    timestamp,        \* argument of guess_precision
    array,            \* argument of cast / cast_with_options
    to_type,          \* argument of cast / cast_with_options
    cast_options,     \* argument of cast_with_options
    pc,               \* "ready" before the call, "done" after it
    guessed,          \* what guess_precision returned
    ret               \* what cast / cast_with_options returned, with the call's log

vars == <<overflow_checks, op, timestamp, array, to_type, cast_options, pc, guessed, ret>>

(***************************************************************************)
(* Precision guesser (lib.rs 79-107).                                      *)
(***************************************************************************)
GUESSING_BOUND_YEARS == 1000

LOWER_BOUND_MILLIS ==
    Pos(MulSmall(MulSmall(FromNat(86400), 365), GUESSING_BOUND_YEARS))
LOWER_BOUND_MICROS ==
    Pos(MulSmall(MulSmall(MulSmall(FromNat(1000), 86400), 365), GUESSING_BOUND_YEARS))
LOWER_BOUND_NANOS ==
    Pos(MulSmall(MulSmall(MulSmall(MulSmall(FromNat(1000), 1000), 86400), 365),
                 GUESSING_BOUND_YEARS))

Units == <<"Second", "Millisecond", "Microsecond", "Nanosecond">>
TimeUnit == {Units[i] : i \in 1..4}

\* i64::abs: the magnitude of i64::MIN is no i64; the call panics where the
\* build checks overflow and returns i64::MIN itself where it does not
I64Abs(t) ==
    IF t = I64_MIN
    THEN [panic |-> overflow_checks, v |-> I64_MIN]
    ELSE [panic |-> FALSE, v |-> Pos(t.mag)]

\* mutant: the thresholds compared with >= instead of >
guess_precision_ge(t) ==
    LET a == I64Abs(t)
    IN  IF a.panic THEN "Panic"
        ELSE IF ~NumGt(LOWER_BOUND_NANOS, a.v) THEN "Nanosecond"
        ELSE IF ~NumGt(LOWER_BOUND_MICROS, a.v) THEN "Microsecond"
        ELSE IF ~NumGt(LOWER_BOUND_MILLIS, a.v) THEN "Millisecond"
        ELSE "Second"

guess_precision(t) ==
    LET a == I64Abs(t)
    IN  IF a.panic THEN "Panic"
        ELSE IF NumGt(a.v, LOWER_BOUND_NANOS) THEN "Nanosecond"
        ELSE IF NumGt(a.v, LOWER_BOUND_MICROS) THEN "Microsecond"
        ELSE IF NumGt(a.v, LOWER_BOUND_MILLIS) THEN "Millisecond"
        ELSE "Second"

(***************************************************************************)
(* Logical types and arrays.                                               *)
(***************************************************************************)
NULL == [null |-> TRUE, neg |-> FALSE, mag |-> << >>]

T(k) == [k |-> k, unit |-> "-", tz |-> "-"]
Timestamp(unit, tz) == [k |-> "Timestamp", unit |-> unit, tz |-> tz]
Int64 == T("Int64")

Arr(data_type, vals) == [data_type |-> data_type, vals |-> vals]
Length(a) == Len(a.vals)
null_count(a) == Cardinality({i \in 1..Len(a.vals) : a.vals[i].null})

new_empty_array(data_type) == Arr(data_type, << >>)
new_null_array(data_type, n) == Arr(data_type, [i \in 1..n |-> NULL])
make_array(a) == Arr(a.data_type, a.vals)

\* the first non-null element, index order (0: none)
FirstNonNull(a) ==
    IF \A i \in 1..Len(a.vals) : a.vals[i].null THEN 0
    ELSE CHOOSE i \in 1..Len(a.vals) :
            ~a.vals[i].null /\ \A j \in 1..(i - 1) : a.vals[j].null

\* mutant: the guess taken from the last non-null element
guess_precision_in_array_last(a) ==
    LET nn == {i \in 1..Len(a.vals) : ~a.vals[i].null}
    IN  IF nn = {} THEN "None"
        ELSE guess_precision(a.vals[CHOOSE i \in nn : \A j \in nn : j <= i])

\* Option<TimeUnit>: "None", a unit, or "Panic" when the guesser panics
guess_precision_in_array(a) ==
    LET i == FirstNonNull(a)
    IN  IF i = 0 THEN "None" ELSE guess_precision(a.vals[i])

(***************************************************************************)
(* The external caster, arrow_cast::cast_with_options (arrow 49, lib.rs    *)
(* 27), on the type pairs the dispatcher hands it.  An element that has no *)
(* value in the target type becomes null under safe and fails the whole    *)
(* cast otherwise; a type pair it has no conversion for fails the cast.    *)
(* Strings convert to timestamps and integers, binary types do not.        *)
(* A timezone is kept as a label of the type: counts are relative to the   *)
(* epoch, and the caster's wall-clock normalisation between a zoneless     *)
(* and a zoned timestamp type is left out.                                 *)
(***************************************************************************)
NarrowKinds ==
    {"Int8", "Int16", "Int32", "UInt8", "UInt32", "Float16", "Float32", "UInt16"}
WideKinds == {"Int64", "UInt64", "Float64"}
StringKinds == {"Binary", "FixedSizeBinary", "LargeBinary", "Utf8", "LargeUtf8"}
TextKinds == {"Utf8", "LargeUtf8"}
NumericKinds == NarrowKinds \cup WideKinds

I32MaxMag == <<2, 147, 483, 647>>
I32MinMag == <<2, 147, 483, 648>>

\* whether the integer n is a value of the integer type k
FitsInt(k, n) ==
    IF k = "Int64" THEN FitsI64(n)
    ELSE IF n.neg THEN ~MagLess(I32MinMag, n.mag) ELSE ~MagLess(I32MaxMag, n.mag)

\* time_unit_multiple as a power of 1000
UnitExp(u) == CHOOSE i \in 0..3 : Units[i + 1] = u

Valid(e) == [ok |-> TRUE, e |-> e]
Invalid == [ok |-> FALSE, e |-> NULL]
Checked(k, n) == IF FitsInt(k, n) THEN Valid(n) ELSE Invalid

\* a timestamp count from one unit to another: multiply (checked) or divide
Rescale(e, from_unit, to_unit) ==
    LET f == UnitExp(from_unit)
        t == UnitExp(to_unit)
    IN  IF f > t THEN Valid(Num(e.neg, MagShr(e.mag, f - t)))
        ELSE Checked("Int64", Num(e.neg, MagShl(e.mag, t - f)))

\* can_cast_types, on the pairs of the model
ExtCanCast(from, to) ==
    \/ from = to
    \/ from.k \in NumericKinds /\ to.k \in {"Int64", "Int32"}
    \/ from.k = "Int64" /\ to.k = "Timestamp"
    \/ from.k = "Timestamp" /\ to.k \in {"Timestamp", "Int64"}
    \/ from.k \in TextKinds /\ to.k \in {"Timestamp", "Int64", "Int32"}

ConvElem(e, from, to) ==
    IF e.null THEN Valid(NULL)
    ELSE IF from.k \in NumericKinds /\ to.k \in {"Int64", "Int32"}
    THEN Checked(to.k, e)
    ELSE IF from.k = "Int64" /\ to.k = "Timestamp" THEN Valid(e)
    ELSE IF from.k = "Timestamp" /\ to.k = "Int64" THEN Valid(e)
    ELSE IF from.k = "Timestamp" /\ to.k = "Timestamp"
    THEN Rescale(e, from.unit, to.unit)
    ELSE IF from.k \in TextKinds /\ to.k = "Timestamp"
    THEN LET nanos == Rescale(Num(e.neg, e.mag), "Second", "Nanosecond")
         IN  IF e.text = "ts" /\ nanos.ok
             THEN Rescale(nanos.e, "Nanosecond", to.unit)
             ELSE Invalid
    ELSE IF from.k \in TextKinds /\ to.k \in {"Int64", "Int32"}
    THEN IF e.text = "int" THEN Checked(to.k, Num(e.neg, e.mag)) ELSE Invalid
    ELSE Invalid

Ok(a) == [st |-> "Ok", arr |-> a]
Err == [st |-> "Err", arr |-> new_empty_array(T("Null"))]
Panic == [st |-> "Panic", arr |-> new_empty_array(T("Null"))]

\* arrow_cast::cast_with_options(array, to_type, CastOptions { safe, .. })
ExtCast(a, to, safe) ==
    IF a.data_type = to THEN Ok(a)
    ELSE IF ~ExtCanCast(a.data_type, to) THEN Err
    ELSE LET c == [i \in 1..Len(a.vals) |-> ConvElem(a.vals[i], a.data_type, to)]
         IN  IF ~safe /\ \E i \in 1..Len(a.vals) : ~c[i].ok THEN Err
             ELSE Ok(Arr(to, [i \in 1..Len(a.vals) |-> c[i].e]))

(***************************************************************************)
(* Cast dispatcher (lib.rs 109-240).  A call returns its result with the   *)
(* log of the call: the case each dispatcher invocation took (outermost    *)
(* first), the external caster's calls as <<from type, to type>>, and the  *)
(* values the precision guesser was consulted on.                          *)
(***************************************************************************)
TimestampCastOptionsDefault ==
    [guess_timestamp_precision |-> TRUE, use_timezone_as_is |-> TRUE]

CastOptionsDefault ==
    [safe |-> TRUE, timestamp_options |-> TimestampCastOptionsDefault]

Call(res, cases, ext, guesses) ==
    [res |-> res, cases |-> cases, ext |-> ext, guesses |-> guesses]

\* mutant: use_timezone_as_is ignored
EffectiveTz_AsIs(to_t, o) == to_t.tz

\* the timezone of the intermediate timestamp type
EffectiveTz(to_t, o) ==
    IF o.timestamp_options.use_timezone_as_is THEN to_t.tz ELSE "None"

\* lib.rs 182-200: a narrow numeric source, a timestamp target
CastNarrow(a, to_t, o) ==
    LET tz == EffectiveTz(to_t, o)
        ints == ExtCast(a, Int64, TRUE)
        mid == IF o.timestamp_options.guess_timestamp_precision
               THEN Timestamp("Second", tz)
               ELSE Timestamp(to_t.unit, tz)
        ts == ExtCast(ints.arr, mid, TRUE)
        e1 == <<a.data_type, Int64>>
        e2 == <<Int64, mid>>
        e3 == <<mid, to_t>>
    IN  IF ints.st # "Ok" THEN Call(ints, <<"narrow">>, <<e1>>, << >>)
        ELSE IF ts.st # "Ok" THEN Call(ts, <<"narrow">>, <<e1, e2>>, << >>)
        ELSE Call(ExtCast(ts.arr, to_t, o.safe), <<"narrow">>, <<e1, e2, e3>>, << >>)

\* lib.rs 224-232: a wide numeric source, a timestamp target, guessing enabled
CastWideGuess(a, to_t, o) ==
    LET ints == ExtCast(a, Int64, TRUE)
        tz == EffectiveTz(to_t, o)
        g == guess_precision_in_array(ints.arr)
        i == FirstNonNull(ints.arr)
        seen == IF i = 0 THEN << >> ELSE <<ints.arr.vals[i]>>
        mid == Timestamp(IF g = "None" THEN to_t.unit ELSE g, tz)
        ts == ExtCast(ints.arr, mid, TRUE)
        e1 == <<a.data_type, Int64>>
        e2 == <<Int64, mid>>
        e3 == <<mid, to_t>>
    IN  IF ints.st # "Ok" THEN Call(ints, <<"wide">>, <<e1>>, << >>)
        ELSE IF g = "Panic" THEN Call(Panic, <<"wide">>, <<e1>>, seen)
        ELSE IF ts.st # "Ok" THEN Call(ts, <<"wide">>, <<e1, e2>>, seen)
        ELSE Call(ExtCast(ts.arr, to_t, o.safe), <<"wide">>, <<e1, e2, e3>>, seen)

RECURSIVE cast_with_options(_, _, _)

\* lib.rs 109-111
cast(a, to_t) == cast_with_options(a, to_t, CastOptionsDefault)

\* mutant: the inner cast made by the external caster, not by this crate's cast
CastWideNoGuess_External(a, to_t, o) ==
    LET ints == ExtCast(a, Int64, TRUE)
        tz == EffectiveTz(to_t, o)
        mid == Timestamp(to_t.unit, tz)
        inner == ExtCast(ints.arr, mid, TRUE)
        e1 == <<a.data_type, Int64>>
        e2 == <<Int64, mid>>
        e3 == <<mid, to_t>>
    IN  IF ints.st # "Ok" THEN Call(ints, <<"wide">>, <<e1>>, << >>)
        ELSE IF inner.st # "Ok" THEN Call(inner, <<"wide">>, <<e1, e2>>, << >>)
        ELSE Call(ExtCast(inner.arr, to_t, o.safe), <<"wide">>, <<e1, e2, e3>>, << >>)

\* lib.rs 216-223, 233-236: a wide numeric source, a timestamp target, guessing disabled
CastWideNoGuess(a, to_t, o) ==
    LET ints == ExtCast(a, Int64, TRUE)
        tz == EffectiveTz(to_t, o)
        mid == Timestamp(to_t.unit, tz)
        inner == cast(ints.arr, mid)
        e1 == <<a.data_type, Int64>>
        e3 == <<mid, to_t>>
    IN  IF ints.st # "Ok" THEN Call(ints, <<"wide">>, <<e1>>, << >>)
        ELSE IF inner.res.st # "Ok"
        THEN Call(inner.res, <<"wide">> \o inner.cases, <<e1>> \o inner.ext,
                  inner.guesses)
        ELSE Call(ExtCast(inner.res.arr, to_t, o.safe), <<"wide">> \o inner.cases,
                  <<e1>> \o inner.ext \o <<e3>>, inner.guesses)

\* mutant: the fallback tried when the result has no null, not when it is all null
CastString_NoFallback(a, to_t, o) ==
    LET string_to_ts == ExtCast(a, to_t, o.safe)
        ints == ExtCast(a, Int64, o.safe)
        inner == cast_with_options(ints.arr, to_t, o)
        e1 == <<a.data_type, to_t>>
        e2 == <<a.data_type, Int64>>
    IN  IF string_to_ts.st # "Ok" THEN Call(string_to_ts, <<"string">>, <<e1>>, << >>)
        ELSE IF null_count(string_to_ts.arr) # 0
        THEN Call(string_to_ts, <<"string">>, <<e1>>, << >>)
        ELSE IF ints.st = "Ok" /\ null_count(ints.arr) < Length(ints.arr)
        THEN Call(inner.res, <<"string">> \o inner.cases, <<e1, e2>> \o inner.ext,
                  inner.guesses)
        ELSE Call(string_to_ts, <<"string">>, <<e1, e2>>, << >>)

\* mutant: an entirely-null result without an integer reading returned as an error
CastString_ErrWhenAllNull(a, to_t, o) ==
    LET string_to_ts == ExtCast(a, to_t, o.safe)
        ints == ExtCast(a, Int64, o.safe)
        inner == cast_with_options(ints.arr, to_t, o)
        e1 == <<a.data_type, to_t>>
        e2 == <<a.data_type, Int64>>
    IN  IF string_to_ts.st # "Ok" THEN Call(string_to_ts, <<"string">>, <<e1>>, << >>)
        ELSE IF null_count(string_to_ts.arr) # Length(string_to_ts.arr)
        THEN Call(string_to_ts, <<"string">>, <<e1>>, << >>)
        ELSE IF ints.st = "Ok" /\ null_count(ints.arr) < Length(ints.arr)
        THEN Call(inner.res, <<"string">> \o inner.cases, <<e1, e2>> \o inner.ext,
                  inner.guesses)
        ELSE Call(Err, <<"string">>, <<e1, e2>>, << >>)

\* lib.rs 202-215: a string or binary source, any target
CastString(a, to_t, o) ==
    LET string_to_ts == ExtCast(a, to_t, o.safe)
        ints == ExtCast(a, Int64, o.safe)
        inner == cast_with_options(ints.arr, to_t, o)
        e1 == <<a.data_type, to_t>>
        e2 == <<a.data_type, Int64>>
    IN  IF string_to_ts.st # "Ok" THEN Call(string_to_ts, <<"string">>, <<e1>>, << >>)
        ELSE IF null_count(string_to_ts.arr) # Length(string_to_ts.arr)
        THEN Call(string_to_ts, <<"string">>, <<e1>>, << >>)
        ELSE IF ints.st = "Ok" /\ null_count(ints.arr) < Length(ints.arr)
        THEN Call(inner.res, <<"string">> \o inner.cases, <<e1, e2>> \o inner.ext,
                  inner.guesses)
        ELSE Call(string_to_ts, <<"string">>, <<e1, e2>>, << >>)

\* mutant: the zero-length shortcut missing
cast_with_options_no_empty(a, to_t, o) ==
    LET from_type == a.data_type
    IN  IF from_type = to_t THEN Call(Ok(make_array(a)), <<"identity">>, << >>, << >>)
        ELSE IF from_type = T("Null")
        THEN Call(Ok(new_null_array(to_t, Length(a))), <<"null">>, << >>, << >>)
        ELSE IF from_type.k \in NarrowKinds /\ to_t.k = "Timestamp"
        THEN CastNarrow(a, to_t, o)
        ELSE IF from_type.k \in StringKinds
        THEN CastString(a, to_t, o)
        ELSE IF from_type.k \in WideKinds /\ to_t.k = "Timestamp"
        THEN IF o.timestamp_options.guess_timestamp_precision
             THEN CastWideGuess(a, to_t, o)
             ELSE CastWideNoGuess(a, to_t, o)
        ELSE Call(ExtCast(a, to_t, o.safe), <<"other">>, <<<<from_type, to_t>>>>, << >>)

\* lib.rs 163-240
cast_with_options(a, to_t, o) ==
    LET from_type == a.data_type
    IN  IF from_type = to_t THEN Call(Ok(make_array(a)), <<"identity">>, << >>, << >>)
        ELSE IF Length(a) = 0
        THEN Call(Ok(new_empty_array(to_t)), <<"empty">>, << >>, << >>)
        ELSE IF from_type = T("Null")
        THEN Call(Ok(new_null_array(to_t, Length(a))), <<"null">>, << >>, << >>)
        ELSE IF from_type.k \in NarrowKinds /\ to_t.k = "Timestamp"
        THEN CastNarrow(a, to_t, o)
        ELSE IF from_type.k \in StringKinds
        THEN CastString(a, to_t, o)
        ELSE IF from_type.k \in WideKinds /\ to_t.k = "Timestamp"
        THEN IF o.timestamp_options.guess_timestamp_precision
             THEN CastWideGuess(a, to_t, o)
             ELSE CastWideNoGuess(a, to_t, o)
        ELSE Call(ExtCast(a, to_t, o.safe), <<"other">>, <<<<from_type, to_t>>>>, << >>)

(***************************************************************************)
(* Inputs.                                                                 *)
(***************************************************************************)
MaxLen == 2

SeqsUpTo(S, n) == UNION {[1..m -> S] : m \in 0..n}

\* 1701325744 s = 2023-11-30T06:29:04Z, and 1701325744956 ms in ms, us and ns
Secs == Pos(<<1, 701, 325, 744>>)
Millis == Pos(<<1, 701, 325, 744, 956>>)
Micros == Pos(<<1, 701, 325, 744, 956, 0>>)
Nanos == Pos(<<1, 701, 325, 744, 956, 0, 0>>)
U64Max == Pos(<<18, 446, 744, 73, 709, 551, 615>>)
TenPow19 == Pos(<<10, 0, 0, 0, 0, 0, 0>>)

\* a string element: the decimal text of an integer, an RFC 3339 literal of
\* an instant (seconds since the epoch), or text that is neither
IntText(n) == [null |-> FALSE, neg |-> n.neg, mag |-> n.mag, text |-> "int"]
TsText(n) == [null |-> FALSE, neg |-> n.neg, mag |-> n.mag, text |-> "ts"]
BadText == [null |-> FALSE, neg |-> FALSE, mag |-> << >>, text |-> "bad"]

\* the elements drawn for an array of kind k, each a value of that kind
\* (the floating-point values are whole numbers)
Elements(k) ==
    IF k = "Null" THEN {NULL}
    ELSE IF k = "Int64"
    THEN {NULL, Secs, Millis, Micros, Nanos, Neg(Millis.mag), I64_MIN}
    ELSE IF k = "UInt64" THEN {NULL, Secs, Millis, Nanos, U64Max}
    ELSE IF k = "Float64" THEN {NULL, Secs, Millis, Neg(Millis.mag), TenPow19}
    ELSE IF k = "Int32" THEN {NULL, Pos(<<100>>), Neg(<<100>>), Pos(I32MaxMag)}
    ELSE IF k \in NarrowKinds THEN {NULL, Pos(<<100>>)}
    ELSE IF k \in TextKinds
    THEN {NULL, IntText(Millis), IntText(Secs), TsText(Secs), BadText}
    ELSE IF k \in StringKinds THEN {NULL, IntText(Millis), BadText}
    ELSE {NULL, Secs}

Timezones == {"None", "+08:00"}
TimestampTypes == {Timestamp(u, tz) : u \in TimeUnit, tz \in Timezones}
SourceTypes ==
    {T(k) : k \in {"Null"} \cup NumericKinds \cup StringKinds} \cup TimestampTypes
TargetTypes == TimestampTypes \cup {Int64, T("Int32")}

ArraysOf(t) == {Arr(t, v) : v \in SeqsUpTo(Elements(t.k), MaxLen)}

\* the casts drawn: every source to every target, a timestamp source to the
\* timestamp targets
CastInputs ==
    UNION {{<<a, t>> : a \in ArraysOf(s)} :
           <<s, t>> \in {p \in SourceTypes \X TargetTypes :
                            p[1].k = "Timestamp" => p[2].k = "Timestamp"}}

AllCastOptions ==
    {[safe |-> s, timestamp_options |->
         [guess_timestamp_precision |-> g, use_timezone_as_is |-> z]] :
     s \in BOOLEAN, g \in BOOLEAN, z \in BOOLEAN}

\* second counts around and inside the window (B / 1000, B]
WindowLow == MagShr(LOWER_BOUND_MILLIS.mag, 1)
SecondCounts ==
    {MagSucc(WindowLow), Secs.mag, I32MaxMag, LOWER_BOUND_MILLIS.mag}
MagPool ==
    {MagShl(s, k) : s \in SecondCounts, k \in 0..3}
    \cup {<< >>, <<1>>, WindowLow, MagSucc(LOWER_BOUND_MILLIS.mag),
          MagSucc(LOWER_BOUND_MICROS.mag), MagSucc(LOWER_BOUND_NANOS.mag),
          I64MaxMag, I64MinMag}
GuessInputs == {n \in {Num(s, m) : s \in BOOLEAN, m \in MagPool} : FitsI64(n)}

NoArray == new_empty_array(T("Null"))
NoCall == Call(Err, << >>, << >>, << >>)

Init ==
    /\ overflow_checks \in BOOLEAN
    /\ pc = "ready"
    /\ guessed = ""
    /\ ret = NoCall
    /\ \/ /\ op = "guess_precision"
          /\ timestamp \in GuessInputs
          /\ array = NoArray
          /\ to_type = T("Null")
          /\ cast_options = CastOptionsDefault
       \/ /\ op \in {"cast", "cast_with_options"}
          /\ timestamp = Pos(<< >>)
          /\ \E p \in CastInputs : array = p[1] /\ to_type = p[2]
          /\ cast_options \in IF op = "cast" THEN {CastOptionsDefault} ELSE AllCastOptions

GuessPrecision ==
    /\ pc = "ready"
    /\ op = "guess_precision"
    /\ guessed' = guess_precision(timestamp)
    /\ pc' = "done"
    /\ UNCHANGED <<overflow_checks, op, timestamp, array, to_type, cast_options, ret>>

Cast ==
    /\ pc = "ready"
    /\ op = "cast"
    /\ ret' = cast(array, to_type)
    /\ pc' = "done"
    /\ UNCHANGED <<overflow_checks, op, timestamp, array, to_type, cast_options, guessed>>

CastWithOptions ==
    /\ pc = "ready"
    /\ op = "cast_with_options"
    /\ ret' = cast_with_options(array, to_type, cast_options)
    /\ pc' = "done"
    /\ UNCHANGED <<overflow_checks, op, timestamp, array, to_type, cast_options, guessed>>

Next == GuessPrecision \/ Cast \/ CastWithOptions

Spec == Init /\ [][Next]_vars

(***************************************************************************)
(* Properties.                                                             *)
(***************************************************************************)
GuessDone == pc = "done" /\ op = "guess_precision"
CastDone == pc = "done" /\ op \in {"cast", "cast_with_options"}
Guessing == cast_options.timestamp_options.guess_timestamp_precision
ToTimestamp == to_type.k = "Timestamp"
NonNull(a) == {i \in 1..Len(a.vals) : ~a.vals[i].null}

\* the count e, expressed in from_unit, expressed in to_unit (null: no i64)
ExpectedCount(e, from_unit, to_unit) ==
    LET f == UnitExp(from_unit)
        t == UnitExp(to_unit)
        up == Num(e.neg, MagShl(e.mag, t - f))
    IN  IF e.null THEN NULL
        ELSE IF t < f THEN Num(e.neg, MagShr(e.mag, f - t))
        ELSE IF FitsI64(up) THEN up ELSE NULL

\* the array a of counts in from_unit as an array of type to_t
ExpectedArray(a, from_unit, to_t) ==
    Arr(to_t, [i \in 1..Len(a.vals) |-> ExpectedCount(a.vals[i], from_unit, to_t.unit)])

\* some count of a in from_unit has no i64 value in to_unit
Overflows(a, from_unit, to_unit) ==
    \E i \in NonNull(a) : ExpectedCount(a.vals[i], from_unit, to_unit).null

\* the result of rescaling a from from_unit to the target: the array, or the
\* error an overflow raises when the cast is not safe
IsRescaled(res, a, from_unit) ==
    IF ~cast_options.safe /\ Overflows(a, from_unit, to_type.unit)
    THEN res.st = "Err"
    ELSE res = Ok(ExpectedArray(a, from_unit, to_type))

C1_Ints == ExtCast(array, Int64, TRUE).arr
C1_Unit ==
    LET i == FirstNonNull(C1_Ints)
    IN  IF i = 0 THEN to_type.unit ELSE guess_precision(C1_Ints.vals[i])
C1_Case ==
    /\ CastDone /\ Guessing /\ ToTimestamp
    /\ array.data_type.k \in WideKinds /\ Length(array) > 0

C2_StringToTs == ExtCast(array, to_type, cast_options.safe)
C2_Ints == ExtCast(array, Int64, cast_options.safe)
C2_Case ==
    /\ CastDone
    /\ array.data_type.k \in StringKinds
    /\ C2_StringToTs.st = "Ok"
    /\ null_count(C2_StringToTs.arr) = Length(C2_StringToTs.arr)
    /\ C2_Ints.st = "Ok"
    /\ null_count(C2_Ints.arr) < Length(C2_Ints.arr)

(* C2: a string/binary array whose conversion to the target succeeds with  *)
(* an entirely-null result and whose conversion to Int64 succeeds with a   *)
(* non-null element is cast exactly as that Int64 array is, to the same    *)
(* target under the same options; an array of numeric strings gives the    *)
(* timestamps of the Int64 array holding the same numbers.                 *)
C2_StringFallbackIsIntCast ==
    C2_Case =>
        /\ ret.res = cast_with_options(C2_Ints.arr, to_type, cast_options).res
        /\ (ToTimestamp /\ \A i \in 1..Length(array) :
                ~array.vals[i].null /\ array.vals[i].text = "int")
           => ret.res =
                cast_with_options(
                    Arr(Int64, [i \in 1..Length(array) |->
                                  Num(array.vals[i].neg, array.vals[i].mag)]),
                    to_type, cast_options).res

\* Utf8 ["1701325744956", "1701325744956"] to Timestamp(Nanosecond, None)
C2_Witness ==
    /\ C2_Case /\ op = "cast"
    /\ array = Arr(T("Utf8"), <<IntText(Millis), IntText(Millis)>>)
    /\ to_type = Timestamp("Nanosecond", "None")
    /\ ret.res = Ok(Arr(to_type, <<Nanos, Nanos>>))

(* C3: with guessing disabled, an Int64/UInt64/Float64 array cast to a     *)
(* timestamp never consults the precision guesser, and every non-null      *)
(* count comes out as the input integer, in the target's unit.             *)
C3_NoGuessingWhenDisabled ==
    (/\ pc = "done" /\ op = "cast_with_options" /\ ~Guessing /\ ToTimestamp
     /\ array.data_type.k \in WideKinds /\ Length(array) > 0)
    => /\ ret.guesses = << >>
       /\ ret.res = Ok(Arr(to_type, C1_Ints.vals))

\* |t| > bound, on the mathematical absolute value
AbsGt(t, bound) == MagLess(bound.mag, t.mag)

(* C4: guess_precision classifies |t| by strict greater-than against B,    *)
(* 1000 B and 1000 * 1000 B in descending order; a value equal to a        *)
(* threshold falls in the coarser unit and |t| <= B gives Second.          *)
C4_StrictThresholds ==
    GuessDone =>
        guessed =
            IF AbsGt(timestamp, LOWER_BOUND_NANOS) THEN "Nanosecond"
            ELSE IF AbsGt(timestamp, LOWER_BOUND_MICROS) THEN "Microsecond"
            ELSE IF AbsGt(timestamp, LOWER_BOUND_MILLIS) THEN "Millisecond"
            ELSE "Second"

(* C5: guess_precision is total over i64: for every t, i64::MIN included,  *)
(* it returns one of the four units, and a cast with guessing enabled of   *)
(* an Int64 array does not abort.                                          *)
C5_GuesserIsTotal ==
    /\ GuessDone => guessed \in TimeUnit
    /\ CastDone => ret.res.st # "Panic"

\* the documented window of the default bound: 1971-01-01 (31_536_000 s,
\* exclusive) to 2969-05-03 (31_536_000_000 s, inclusive)
DocWindowLow == <<31, 536, 0>>
DocWindowHigh == <<31, 536, 0, 0>>
InDocWindow(m) == MagLess(DocWindowLow, m) /\ ~MagLess(DocWindowHigh, m)

\* t is 1000^k times a second count of the documented window
ScaledWindow(t, k) ==
    /\ ~t.neg
    /\ Len(t.mag) > k
    /\ \A i \in 1..k : t.mag[Len(t.mag) - k + i] = 0
    /\ InDocWindow(MagShr(t.mag, k))

(* C6: with the default bound of 1000 years, every instant of the          *)
(* documented window (B / 1000 < s <= B seconds) is guessed back to the    *)
(* unit it is expressed in: s Second, 1000 s Millisecond, 10^6 s           *)
(* Microsecond, 10^9 s Nanosecond, wherever the count is an i64.           *)
C6_WindowRoundTrips ==
    GuessDone =>
        \A k \in 0..3 : ScaledWindow(timestamp, k) => guessed = Units[k + 1]

\* 2023-11-30T06:29:04Z in nanoseconds
C6_Witness ==
    /\ GuessDone /\ timestamp = Pos(MagShl(Secs.mag, 3)) /\ ScaledWindow(timestamp, 3)
    /\ guessed = "Nanosecond"

(* C7: the shortcuts come before any classification of the type pair, in   *)
(* the order identity, zero-length, null source, and none calls the        *)
(* external caster: equal types return the input, else a zero-length       *)
(* input returns a zero-length array of the target type, else a Null       *)
(* input of length N returns N nulls of the target type.                   *)
C7_ShortcutsFirst ==
    CastDone =>
        IF array.data_type = to_type
        THEN ret = Call(Ok(array), <<"identity">>, << >>, << >>)
        ELSE IF Length(array) = 0
        THEN ret = Call(Ok(Arr(to_type, << >>)), <<"empty">>, << >>, << >>)
        ELSE IF array.data_type.k = "Null"
        THEN ret = Call(Ok(Arr(to_type, [i \in 1..Length(array) |-> NULL])),
                        <<"null">>, << >>, << >>)
        ELSE ret.cases[1] \notin {"identity", "empty", "null"}

\* a zero-length string array, which the string case would hand to the
\* external caster
C7_Witness ==
    /\ CastDone /\ array = Arr(T("Utf8"), << >>) /\ ToTimestamp
    /\ ret = Call(Ok(Arr(to_type, << >>)), <<"empty">>, << >>, << >>)

\* no element of the string array is a timestamp literal or an integer
NothingValid ==
    \A i \in NonNull(array) : array.vals[i].text = "bad"
AllNullOfInputLength ==
    /\ ret.res.st = "Ok"
    /\ ret.res.arr = Arr(to_type, [i \in 1..Length(array) |-> NULL])

(* C8 as claimed: with safe = true, a string/binary array without a valid  *)
(* timestamp literal or integer, cast to a timestamp, returns Ok with an   *)
(* entirely-null array of the input's length, never an error.              *)
C8_AsClaimed ==
    (/\ CastDone /\ cast_options.safe /\ ToTimestamp
     /\ array.data_type.k \in StringKinds /\ NothingValid)
    => AllNullOfInputLength

(* C8, amended: the same for a Utf8/LargeUtf8 array, and for any           *)
(* string/binary array that is empty; a non-empty Binary, FixedSizeBinary  *)
(* or LargeBinary array has no conversion to a timestamp in the external   *)
(* caster, and the dispatcher returns that error.                          *)
C8_TextAllNullNotError ==
    (/\ CastDone /\ cast_options.safe /\ ToTimestamp
     /\ array.data_type.k \in StringKinds /\ NothingValid)
    => IF array.data_type.k \in TextKinds \/ Length(array) = 0
       THEN AllNullOfInputLength
       ELSE ret.res.st = "Err"

\* Utf8 ["?", null]: neither conversion yields a value
C8_Witness ==
    /\ CastDone /\ cast_options.safe /\ ToTimestamp
    /\ array = Arr(T("Utf8"), <<BadText, NULL>>)
    /\ ret.cases = <<"string">>
    /\ Len(ret.ext) = 2
    /\ AllNullOfInputLength

\* the call went through the string case into the dispatcher again
FallbackTaken == CastDone /\ Len(ret.cases) > 1 /\ ret.cases[1] = "string"

(* C9 as claimed: the invocation the string case makes lands in the        *)
(* narrow or the wide timestamp case, and the call nests exactly one       *)
(* extra dispatcher invocation, for every target and configuration.        *)
C9_AsClaimed ==
    FallbackTaken =>
        /\ ret.cases[2] \in {"narrow", "wide"}
        /\ Len(ret.cases) = 2

(* C9, amended: the recursion is bounded.  The invocation the string case  *)
(* makes is on an Int64 array and never lands in the string case again:    *)
(* it lands in the wide timestamp case for a timestamp target and in the   *)
(* generic case otherwise.  It nests one extra invocation, and a second    *)
(* one exactly when the target is a timestamp and guessing is disabled,    *)
(* the wide case then calling cast; no call nests more than three.         *)
C9_BoundedRecursion ==
    /\ CastDone => Len(ret.cases) \in 1..3
    /\ CastDone => \A i \in 2..Len(ret.cases) : ret.cases[i] # "string"
    /\ FallbackTaken =>
        /\ ret.cases[2] = IF ToTimestamp THEN "wide" ELSE "other"
        /\ Len(ret.cases) = IF ToTimestamp /\ ~Guessing THEN 3 ELSE 2
        /\ Len(ret.cases) = 3 => ret.cases[3] = "wide"

\* a numeric string to a timestamp with guessing disabled: three invocations
C9_Witness ==
    /\ FallbackTaken /\ ~Guessing
    /\ array = Arr(T("Utf8"), <<IntText(Millis)>>)
    /\ ret.cases = <<"string", "wide", "wide">>
    /\ ret.res.st = "Ok"

C10_Case ==
    /\ CastDone /\ ToTimestamp
    /\ array.data_type.k \in NarrowKinds /\ Length(array) > 0
C10_Mid ==
    Timestamp(IF Guessing THEN "Second" ELSE to_type.unit,
              IF cast_options.timestamp_options.use_timezone_as_is
              THEN to_type.tz ELSE "None")

=============================================================================
